---- MODULE Spec2Model ----
(***************************************************************************)
(* Model of picture-story-generator.                                       *)
(*                                                                         *)
(*   main.py            process_exercises_with_images: the pipeline that   *)
(*                      recovers JSON from the model's raw response,       *)
(*                      persists it, annotates it with images and calls    *)
(*                      the document compiler.                             *)
(*   word_generator.py  WordGenerator.create_document and its renderers.   *)
(*                                                                         *)
(* Text is a sequence of tokens.  Each token stands for a fixed piece of   *)
(* the raw response:                                                       *)
(*   "F"  ```            "j"  json          "s"  one space                 *)
(*   "n"  null           "q"  a double quote                               *)
(*   "["  "]"  "{"  "}"  themselves                                        *)
(*   "t"  "maxTitle":"看图写话练习题","questions":                         *)
(*   "p"  "prompt":"x"                                                     *)
(* and, only in decoded data (never in raw text),                          *)
(*   "u"  ,"image_url":"..."      "l"  ,"local_image_path":"..."           *)
(* A decoded JSON value is kept in canonical form: its tokens without the  *)
(* insignificant whitespace, JSON null being the Python value None.        *)
(***************************************************************************)
EXTENDS Integers, Sequences, FiniteSets, TLC

VARIABLES
    \* ---- process_exercises_with_images (main.py) ----
    content,          \* raw response text returned by call_model
    modelOk,          \* FALSE when call_model returned content None
    pc,               \* position in process_exercises_with_images
    exercises_data,   \* the variable exercises_data (None until recovered)
    fencedTried,      \* fenced blocks handed to json.loads, in order
    arrayTried,       \* array spans handed to json.loads (at most one)
    log,              \* side effects of the pipeline, in order
    result,           \* the returned tuple (output_dir, exercises_data)
    \* ---- WordGenerator.create_document (word_generator.py) ----
    docContent,       \* the parameter content: the list of exercise groups
    blankWidth,       \* number of underscores of one blank marker
    cpc,              \* position in create_document
    gi,               \* index of the next item of content
    doc,              \* the paragraphs of the document, in order
    answers,          \* the list answers of create_document
    glog,             \* per item handled: where its paragraphs start, what it collected
    qlog              \* per question rendered: its paragraphs, image attempts, answer

pipelineVars == <<content, modelOk, pc, exercises_data, fencedTried, arrayTried, log, result>>
compilerVars == <<docContent, blankWidth, cpc, gi, doc, answers, glog, qlog>>
vars == <<pipelineVars, compilerVars>>

(***************************************************************************)
(* Bounds                                                                  *)
(***************************************************************************)
MaxParts == 4
MaxGroups == 2
MaxTotalQuestions == 3
MaxPicQuestions == 2
MaxFragments == 4

(***************************************************************************)
(* Generic helpers                                                         *)
(***************************************************************************)
RECURSIVE Flatten(_)
Flatten(ss) == IF ss = <<>> THEN <<>> ELSE Head(ss) \o Flatten(Tail(ss))

SeqsUpTo(S, n) == UNION {[1..k -> S] : k \in 0..n}

Min(S) == CHOOSE a \in S : \A b \in S : a <= b
Max(S) == CHOOSE a \in S : \A b \in S : a >= b

\* Python's None; json.loads("null") returns it.
None == <<"None">>

(***************************************************************************)
(* json.loads on token text                                                *)
(***************************************************************************)
\* first index >= i that is past the end or holds no whitespace
RECURSIVE SkipWs(_, _)
SkipWs(s, i) == IF i <= Len(s) /\ s[i] = "s" THEN SkipWs(s, i + 1) ELSE i

ParseFail == [ok |-> FALSE, next |-> 0, val |-> <<>>]

\* index of the token that ends a string opened before i: the next quote
\* character, which is either "q" or the first character of "t" or "p"
RECURSIVE StringEnd(_, _)
StringEnd(s, i) ==
    IF i > Len(s) THEN 0
    ELSE IF s[i] \in {"q", "t", "p"} THEN i
    ELSE StringEnd(s, i + 1)

\* one JSON value starting at s[i]: [ok, next index, canonical value]
RECURSIVE ParseValue(_, _)
ParseValue(s, i) ==
    IF i > Len(s) THEN ParseFail
    ELSE IF s[i] = "n" THEN [ok |-> TRUE, next |-> i + 1, val |-> None]
    ELSE IF s[i] = "q" THEN
        LET e == StringEnd(s, i + 1)
        IN  IF e # 0 /\ s[e] = "q"
            THEN [ok |-> TRUE, next |-> e + 1, val |-> SubSeq(s, i, e)]
            ELSE ParseFail
    ELSE IF s[i] = "[" THEN
        LET k == SkipWs(s, i + 1)
        IN  IF k <= Len(s) /\ s[k] = "]"
            THEN [ok |-> TRUE, next |-> k + 1, val |-> <<"[", "]">>]
            ELSE LET v == ParseValue(s, k)
                     m == SkipWs(s, v.next)
                 IN  IF v.ok /\ m <= Len(s) /\ s[m] = "]"
                     THEN [ok |-> TRUE, next |-> m + 1,
                           val |-> <<"[">> \o v.val \o <<"]">>]
                     ELSE ParseFail
    ELSE IF s[i] = "{" THEN
        LET k == SkipWs(s, i + 1)
        IN  IF k > Len(s) THEN ParseFail
            ELSE IF s[k] = "}"
            THEN [ok |-> TRUE, next |-> k + 1, val |-> <<"{", "}">>]
            ELSE IF s[k] = "p" THEN
                LET m == SkipWs(s, k + 1)
                IN  IF m <= Len(s) /\ s[m] = "}"
                    THEN [ok |-> TRUE, next |-> m + 1, val |-> <<"{", "p", "}">>]
                    ELSE ParseFail
            ELSE IF s[k] = "t" THEN
                LET v == ParseValue(s, SkipWs(s, k + 1))
                    m == SkipWs(s, v.next)
                IN  IF v.ok /\ m <= Len(s) /\ s[m] = "}"
                    THEN [ok |-> TRUE, next |-> m + 1,
                          val |-> <<"{", "t">> \o v.val \o <<"}">>]
                    ELSE ParseFail
            ELSE ParseFail
    ELSE ParseFail

\* json.loads(s): [ok |-> FALSE] stands for json.JSONDecodeError
json_loads(s) ==
    LET v == ParseValue(s, SkipWs(s, 1))
    IN  IF v.ok /\ SkipWs(s, v.next) > Len(s)
        THEN [ok |-> TRUE, val |-> v.val]
        ELSE [ok |-> FALSE, val |-> <<>>]

\* str.strip()
RECURSIVE RStrip(_)
RStrip(s) == IF s # <<>> /\ s[Len(s)] = "s" THEN RStrip(SubSeq(s, 1, Len(s) - 1)) ELSE s

strip(s) == RStrip(SubSeq(s, SkipWs(s, 1), Len(s)))

(***************************************************************************)
(* The two regular expressions of the recovery                             *)
(***************************************************************************)
\* first index >= i holding token c, 0 if none
RECURSIVE IndexFrom(_, _, _)
IndexFrom(s, c, i) ==
    IF i > Len(s) THEN 0 ELSE IF s[i] = c THEN i ELSE IndexFrom(s, c, i + 1)

\* re.findall(r'```(?:json)?\s*([\s\S]*?)```', s) from index i on: the
\* captured groups of the non-overlapping matches, left to right
RECURSIVE FencedFrom(_, _)
FencedFrom(s, i) ==
    LET a == IndexFrom(s, "F", i)
        afterTag == IF a + 1 <= Len(s) /\ s[a + 1] = "j" THEN a + 2 ELSE a + 1
        start == SkipWs(s, afterTag)
        b == IndexFrom(s, "F", start)
    IN  IF a = 0 \/ b = 0 THEN <<>>
        ELSE <<SubSeq(s, start, b - 1)>> \o FencedFrom(s, b + 1)

re_findall_fenced(s) == FencedFrom(s, 1)

\* positions m of a "}" that whitespace and then "]" follow
ObjectArrayEnds(s) ==
    {m \in 1..Len(s) :
        /\ s[m] = "}"
        /\ LET e == SkipWs(s, m + 1) IN e <= Len(s) /\ s[e] = "]"}

\* positions i of a "[" that whitespace and then "{" follow, with a later end
ObjectArrayStarts(s) ==
    LET ends == ObjectArrayEnds(s)
    IN  {i \in 1..Len(s) :
            /\ s[i] = "["
            /\ LET k == SkipWs(s, i + 1)
               IN  /\ k <= Len(s)
                   /\ s[k] = "{"
                   /\ \E m \in ends : m > k}

\* re.search(r'\[\s*{.*}\s*\]', s, re.DOTALL): leftmost start, greedy end
re_search_array(s) ==
    LET starts == ObjectArrayStarts(s)
    IN  IF starts = {} THEN [found |-> FALSE, span |-> <<>>]
        ELSE LET i == Min(starts)
                 m == Max(ObjectArrayEnds(s))
             IN  [found |-> TRUE, span |-> SubSeq(s, i, SkipWs(s, m + 1))]

(***************************************************************************)
(* Recovery of exercises_data from the raw response                        *)
(***************************************************************************)
\* the loop over the fenced blocks: stops at the first block that decodes
RECURSIVE TryFenced(_, _)
TryFenced(matches, tried) ==
    IF matches = <<>> THEN [data |-> None, tried |-> tried]
    ELSE LET block == strip(Head(matches))
             d == json_loads(block)
         IN  IF d.ok THEN [data |-> d.val, tried |-> Append(tried, block)]
             ELSE TryFenced(Tail(matches), Append(tried, block))

\* the array fallback, entered with the data the fenced loop left
TryArray(text, data) ==
    IF data = None
    THEN LET am == re_search_array(text)
         IN  IF am.found
             THEN LET d == json_loads(am.span)
                  IN  [data |-> IF d.ok THEN d.val ELSE None, tried |-> <<am.span>>]
             ELSE [data |-> None, tried |-> <<>>]
    ELSE [data |-> data, tried |-> <<>>]

\* the same steps with the fallbacks dedented out of the except clause
ExtractJsonDedented(text) ==
    LET direct == json_loads(text)
        f == TryFenced(re_findall_fenced(text), <<>>)
        decoded == f.tried # <<>> /\ json_loads(f.tried[Len(f.tried)]).ok
        afterFenced == IF decoded THEN f.data
                       ELSE IF direct.ok THEN direct.val ELSE None
        a == TryArray(text, afterFenced)
    IN  [data |-> a.data, fenced |-> f.tried, array |-> a.tried]

\* try: json.loads(content) except JSONDecodeError: fenced blocks, then array
ExtractJson(text) ==
    LET direct == json_loads(text)
    IN  IF direct.ok
        THEN [data |-> direct.val, fenced |-> <<>>, array |-> <<>>]
        ELSE LET f == TryFenced(re_findall_fenced(text), <<>>)
                 a == TryArray(text, f.data)
             IN  [data |-> a.data, fenced |-> f.tried, array |-> a.tried]

\* if exercises_data is None: return None, None
ExtractionMissed(data) == FALSE

ExtractionFailed(data) == data = None

(***************************************************************************)
(* Raw responses                                                           *)
(***************************************************************************)
\* [{"maxTitle":"看图写话练习题","questions":[{"prompt":"x"}]}]
PictureArray == <<"[", "{", "t", "[", "{", "p", "}", "]", "}", "]">>

\* the pieces a raw response is assembled from
Chunks ==
    {<<"F">>, <<"j">>, <<"s">>, <<"n">>, <<"q">>,
     <<"[">>, <<"]">>, <<"{", "}">>, PictureArray}

Texts == {Flatten(parts) : parts \in SeqsUpTo(Chunks, MaxParts)}

(***************************************************************************)
(* Decoded data as Python sees it                                          *)
(***************************************************************************)
IsList(v) == v # <<>> /\ v[1] = "["
IsDict(v) == v # <<>> /\ v[1] = "{"

\* the elements of a decoded list (the token text has no comma: at most one)
Elements(v) == IF Len(v) = 2 THEN <<>> ELSE <<SubSeq(v, 2, Len(v) - 1)>>

\* isinstance(item, dict) and item.get("maxTitle") == "看图写话练习题"
IsPictureGroup(item) == IsDict(item) /\ Len(item) > 2 /\ item[2] = "t"

\* item.get("questions", [])
QuestionsOf(item) == SubSeq(item, 3, Len(item) - 1)

\* "prompt" in question
HasPrompt(question) == IsDict(question) /\ Len(question) > 2 /\ question[2] = "p"

\* the questions the image loop requests an image for
PromptQuestions(data) ==
    IF IsList(data) /\ Elements(data) # <<>> /\ IsPictureGroup(Elements(data)[1])
       /\ IsList(QuestionsOf(Elements(data)[1]))
    THEN SelectSeq(Elements(QuestionsOf(Elements(data)[1])), HasPrompt)
    ELSE <<>>

\* what generate_image returns: (image_url, local_image_path) set or not
ImageOutcomes ==
    {[url |-> FALSE, local |-> FALSE],
     [url |-> TRUE, local |-> FALSE],
     [url |-> TRUE, local |-> TRUE]}

\* question["image_url"] = ...; question["local_image_path"] = ...
AnnotateQuestion(question, o) ==
    IF o.url
    THEN SubSeq(question, 1, Len(question) - 1)
            \o <<"u">> \o (IF o.local THEN <<"l">> ELSE <<>>) \o <<"}">>
    ELSE question

\* exercises_data after the image loop, every request ending as o
Annotate(data, o) ==
    IF PromptQuestions(data) = <<>> THEN data
    ELSE <<"[", "{", "t", "[">>
            \o AnnotateQuestion(PromptQuestions(data)[1], o)
            \o <<"]", "}", "]">>

Event(name, data) == [ev |-> name, data |-> data]

NoResult == [output_dir |-> <<>>, data |-> <<>>]
\* return None, None
Failure == [output_dir |-> None, data |-> None]

(***************************************************************************)
(* word_generator.py: the document                                         *)
(*                                                                         *)
(* A string is a sequence of characters; a fixed label is one character.   *)
(* A Python dict is a function whose DOMAIN is its set of keys.            *)
(* A paragraph is [kind, num, txt]: kind is its style or role, txt its     *)
(* text; num is the number of a question paragraph and the repeat count    *)
(* of a ruled line ("_" * 60).                                             *)
(***************************************************************************)
\* "句子仿写练习题", "看图写话练习题", and a title that is neither
ImitationTitle == <<"JuZiFangXieLianXiTi">>
PictureTitle == <<"KanTuXieHuaLianXiTi">>
OtherTitle == <<"YueDuLiJieLianXiTi">>

\* "小学二年级仿写练习题与看图写话练习题", "参考答案"
DocumentTitle == <<"XiaoXueErNianJiLianXiTi">>
AnswersTitle == <<"CanKaoDaAn">>

\* "_____________", the blank marker of the fill-in line
BlankWidth == 13
\* range(8) ruled lines of "_" * 60
WritingLines == 8
RuledWidth == 60

Par(kind, num, txt) == [kind |-> kind, num |-> num, txt |-> txt]

BlankPar == Par("blank", 0, <<>>)

\* _add_title
add_title(title) == <<Par("Title", 0, title), BlankPar>>

\* _add_section_title
add_section_title(title) == <<Par("Section", 0, title)>>

\* _add_requirement
add_requirement(requirement) == <<Par("Requirement", 0, requirement)>>

\* "_" * w
Underscores(w) == [k \in 1..w |-> "_"]

\* the loop over enumerate(question["Imitate_writing"]), i counted from 1
RECURSIVE ImitateLoopLeading(_, _, _, _)
ImitateLoopLeading(words, i, text, w) ==
    IF i > Len(words) THEN text
    ELSE ImitateLoopLeading(words, i + 1, text \o Underscores(w) \o words[i], w)

RECURSIVE ImitateLoopReversed(_, _, _, _)
ImitateLoopReversed(words, i, text, w) ==
    IF i > Len(words) THEN text
    ELSE ImitateLoopReversed(words, i + 1,
            words[i] \o (IF i > 1 THEN Underscores(w) ELSE <<>>) \o text, w)

RECURSIVE ImitateLoop(_, _, _, _)
ImitateLoop(words, i, text, w) ==
    IF i > Len(words) THEN text
    ELSE ImitateLoop(words, i + 1,
            (IF i > 1 THEN text \o Underscores(w) ELSE text) \o words[i], w)

\* imitate_text: the loop, then one more blank marker
ImitateText(words, w) == ImitateLoop(words, 1, <<>>, w) \o Underscores(w)

\* one question of _add_imitation_questions:
\* [raised, pars, collected, attempts]
ImitationQuestion(question, w) ==
    IF ~({"number", "question"} \subseteq DOMAIN question)
    THEN [raised |-> TRUE, pars |-> <<>>, collected |-> <<>>, attempts |-> <<>>]
    ELSE [raised |-> FALSE,
          pars |->
            <<Par("Question", question.number, question.question)>>
            \o (IF "Imitate_writing" \in DOMAIN question /\ question.Imitate_writing.list
                THEN <<Par("fill", 0, ImitateText(question.Imitate_writing.items, w))>>
                ELSE <<>>)
            \o <<BlankPar>>,
          collected |->
            IF "reference_answer" \in DOMAIN question
            THEN <<[number |-> question.number,
                    question |-> question.question,
                    answer |-> question.reference_answer]>>
            ELSE <<>>,
          attempts |-> <<>>]

\* the local image: [tried, pars, added]
\* local_image_path is "" (falsy), or names what is at the path:
\* "missing" (no file), "corrupt" (add_picture raises), "valid"
LocalImage(question) ==
    IF "local_image_path" \in DOMAIN question /\ question.local_image_path # ""
    THEN [tried |-> TRUE,
          pars |-> IF question.local_image_path = "missing" THEN <<>>
                   ELSE IF question.local_image_path = "valid"
                   THEN <<Par("picture", 0, <<"local">>)>>
                   ELSE <<Par("centered", 0, <<>>)>>,
          added |-> question.local_image_path = "valid"]
    ELSE [tried |-> FALSE, pars |-> <<>>, added |-> FALSE]

\* the remote image, given image_added: [tried, pars, added]
\* image_url is "" (falsy), or names what the URL yields: "unreachable"
\* (_download_image returns None), "corrupt" (add_picture raises), "valid"
RemoteImageAlways(question, image_added) ==
    IF "image_url" \in DOMAIN question /\ question.image_url # ""
    THEN [tried |-> TRUE,
          pars |-> IF question.image_url = "unreachable" THEN <<>>
                   ELSE IF question.image_url = "valid"
                   THEN <<Par("picture", 0, <<"remote">>)>>
                   ELSE <<Par("centered", 0, <<>>)>>,
          added |-> question.image_url = "valid"]
    ELSE [tried |-> FALSE, pars |-> <<>>, added |-> image_added]

RemoteImage(question, image_added) ==
    IF ~image_added /\ "image_url" \in DOMAIN question /\ question.image_url # ""
    THEN [tried |-> TRUE,
          pars |-> IF question.image_url = "unreachable" THEN <<>>
                   ELSE IF question.image_url = "valid"
                   THEN <<Par("picture", 0, <<"remote">>)>>
                   ELSE <<Par("centered", 0, <<>>)>>,
          added |-> question.image_url = "valid"]
    ELSE [tried |-> FALSE, pars |-> <<>>, added |-> image_added]

\* the closing mark written on the last ruled line
WritingAreaMarkOnLast ==
    <<Par("label", 0, <<"XieHua">>)>>
    \o [k \in 1..WritingLines |->
            IF k = WritingLines THEN Par("ruled", RuledWidth, <<"_", "JuHao">>)
            ELSE Par("ruled", RuledWidth, <<"_">>)]

\* "写话：", then range(8) ruled lines, "JuHao" after the last one
WritingArea ==
    <<Par("label", 0, <<"XieHua">>)>>
    \o [k \in 1..WritingLines |-> Par("ruled", RuledWidth, <<"_">>)]
    \o <<Par("period", 0, <<"JuHao">>)>>

\* one question of _add_picture_questions:
\* [raised, pars, collected, attempts]
PictureQuestion(question) ==
    IF ~({"number", "question"} \subseteq DOMAIN question)
    THEN [raised |-> TRUE, pars |-> <<>>, collected |-> <<>>, attempts |-> <<>>]
    ELSE LET local == LocalImage(question)
             remote == RemoteImage(question, local.added)
         IN [raised |-> FALSE,
             pars |->
                <<Par("Question", question.number, question.question)>>
                \o local.pars \o remote.pars \o WritingArea \o <<BlankPar>>,
             collected |->
                IF "reference_answer" \in DOMAIN question
                THEN <<[f \in {"number", "question", "answer"}
                            \cup ({"prompt"} \cap DOMAIN question) |->
                        IF f = "number" THEN question.number
                        ELSE IF f = "question" THEN question.question
                        ELSE IF f = "answer" THEN question.reference_answer
                        ELSE question.prompt]>>
                ELSE <<>>,
             attempts |->
                (IF local.tried THEN <<[src |-> "local", added |-> local.added]>> ELSE <<>>)
                \o (IF remote.tried THEN <<[src |-> "remote", added |-> remote.added]>>
                    ELSE <<>>)]

\* which renderer create_document picks for a title
RendererElse(title) ==
    IF title = ImitationTitle THEN "imitation" ELSE "picture"

Renderer(title) ==
    IF title = ImitationTitle THEN "imitation"
    ELSE IF title = PictureTitle THEN "picture"
    ELSE "none"

NoQuestions == [raised |-> FALSE, pars |-> <<>>, collected |-> <<>>, qlog |-> <<>>]

\* the for loop of a renderer over questions[i..], the paragraphs of the
\* document so far being `before`: [raised, pars, collected, qlog]
RECURSIVE RenderFrom(_, _, _, _, _, _)
RenderFrom(kind, questions, i, w, g, before) ==
    IF i > Len(questions) THEN NoQuestions
    ELSE LET r == IF kind = "imitation" THEN ImitationQuestion(questions[i], w)
                  ELSE PictureQuestion(questions[i])
         IN  IF r.raised
             THEN [raised |-> TRUE, pars |-> <<>>, collected |-> <<>>, qlog |-> <<>>]
             ELSE LET rest == RenderFrom(kind, questions, i + 1, w, g,
                                         before + Len(r.pars))
                  IN  [raised |-> rest.raised,
                       pars |-> r.pars \o rest.pars,
                       collected |-> r.collected \o rest.collected,
                       qlog |-> <<[g |-> g, q |-> i,
                                   from |-> before, to |-> before + Len(r.pars),
                                   attempts |-> r.attempts,
                                   collected |-> r.collected]>> \o rest.qlog]

\* the renderer call of create_document for one item
RenderQuestions(title, questions, w, g, before) ==
    IF Renderer(title) = "none" THEN NoQuestions
    ELSE RenderFrom(Renderer(title), questions, 1, w, g, before)

\* answers.insert(0, current_answers) in place of append
CollectAnswersFirst(collected, current_answers) ==
    IF current_answers.answers # <<>> THEN <<current_answers>> \o collected ELSE collected

\* answers.append(current_answers) whatever it holds
CollectAnswersAlways(collected, current_answers) == Append(collected, current_answers)

\* if current_answers["answers"]: answers.append(current_answers)
CollectAnswers(collected, current_answers) ==
    IF current_answers.answers # <<>> THEN Append(collected, current_answers) ELSE collected

\* the paragraphs of one answer_item
AnswerItem(title, answer_item) ==
    <<Par("Question", answer_item.number, answer_item.question)>>
    \o (IF title = PictureTitle /\ "prompt" \in DOMAIN answer_item
        THEN <<Par("Answer", 0, <<"TuPianMiaoShu">> \o answer_item.prompt)>>
        ELSE <<>>)
    \o <<Par("Answer", 0, <<"CanKaoDaAn">> \o answer_item.answer)>>

\* the paragraphs of one answer_group
AnswerGroup(answer_group) ==
    add_section_title(answer_group.title \o <<"CanKaoDaAn">>)
    \o Flatten([k \in 1..Len(answer_group.answers) |->
                    AnswerItem(answer_group.title, answer_group.answers[k])])
    \o <<BlankPar>>

\* _add_answers_section
add_answers_section(collected) ==
    add_title(AnswersTitle)
    \o Flatten([k \in 1..Len(collected) |-> AnswerGroup(collected[k])])

PageBreak == Par("page_break", 0, <<>>)

(***************************************************************************)
(* WordGenerator.create_document                                           *)
(***************************************************************************)
CompilerIdle ==
    /\ docContent = <<>>
    /\ blankWidth = BlankWidth
    /\ cpc = "idle"
    /\ gi = 0
    /\ doc = <<>>
    /\ answers = <<>>
    /\ glog = <<>>
    /\ qlog = <<>>

PipelineIdle ==
    /\ content = <<>>
    /\ modelOk = TRUE
    /\ pc = "idle"
    /\ exercises_data = None
    /\ fencedTried = <<>>
    /\ arrayTried = <<>>
    /\ log = <<>>
    /\ result = [output_dir |-> <<>>, data |-> <<>>]

\* create_document is called with docContent
CompilerStart ==
    /\ cpc = "start"
    /\ gi = 0
    /\ doc = <<>>
    /\ answers = <<>>
    /\ glog = <<>>
    /\ qlog = <<>>
    /\ PipelineIdle

\* Document(); _setup_document_styles; _add_title; answers = []
StartDocument ==
    /\ cpc = "start"
    /\ doc' = add_title(DocumentTitle)
    /\ answers' = <<>>
    /\ gi' = 1
    /\ cpc' = "items"
    /\ UNCHANGED <<docContent, blankWidth, glog, qlog>>
    /\ UNCHANGED pipelineVars

\* one pass of the loop `for item in content`
RenderItem ==
    /\ cpc = "items"
    /\ gi <= Len(docContent)
    /\ LET item == docContent[gi]
       IN  IF {"maxTitle", "questions"} \subseteq DOMAIN item
           THEN LET heading ==
                        add_section_title(item.maxTitle)
                        \o (IF "require" \in DOMAIN item
                            THEN add_requirement(item.require) ELSE <<>>)
                    r == RenderQuestions(item.maxTitle, item.questions, blankWidth, gi,
                                         Len(doc) + Len(heading))
                    current_answers == [title |-> item.maxTitle, answers |-> r.collected]
                IN  /\ doc' = doc \o heading \o r.pars
                    /\ qlog' = qlog \o r.qlog
                    /\ glog' = Append(glog, [g |-> gi, from |-> Len(doc),
                                             to |-> Len(doc) + Len(heading) + Len(r.pars),
                                             collected |-> r.collected])
                    /\ IF r.raised
                       THEN cpc' = "raised" /\ answers' = answers /\ gi' = gi
                       ELSE /\ cpc' = "items"
                            /\ answers' = CollectAnswers(answers, current_answers)
                            /\ gi' = gi + 1
           ELSE /\ gi' = gi + 1
                /\ UNCHANGED <<doc, qlog, glog, answers, cpc>>
    /\ UNCHANGED <<docContent, blankWidth>>
    /\ UNCHANGED pipelineVars

\* the appendix added before the page break
FinishDocumentAppendixFirst ==
    /\ cpc = "items"
    /\ gi > Len(docContent)
    /\ doc' = doc \o add_answers_section(answers) \o <<PageBreak>>
    /\ cpc' = "saved"
    /\ UNCHANGED <<docContent, blankWidth, gi, answers, glog, qlog>>
    /\ UNCHANGED pipelineVars

\* doc.add_page_break(); _add_answers_section; doc.save
FinishDocument ==
    /\ cpc = "items"
    /\ gi > Len(docContent)
    /\ doc' = doc \o <<PageBreak>> \o add_answers_section(answers)
    /\ cpc' = "saved"
    /\ UNCHANGED <<docContent, blankWidth, gi, answers, glog, qlog>>
    /\ UNCHANGED pipelineVars

NextCompiler ==
    \/ StartDocument
    \/ RenderItem
    \/ FinishDocument

(***************************************************************************)
(* Collections handed to create_document                                   *)
(***************************************************************************)
Text(c) == <<c>>

\* a question dict from its optional parts
Question(number, fields) ==
    [f \in {"number", "question"} \cup DOMAIN fields |->
        IF f = "number" THEN number
        ELSE IF f = "question" THEN Text("Q")
        ELSE fields[f]]

Group(title, requirePresent, questions) ==
    [f \in {"maxTitle", "questions"} \cup (IF requirePresent THEN {"require"} ELSE {}) |->
        IF f = "maxTitle" THEN title
        ELSE IF f = "questions" THEN questions
        ELSE Text("R")]

EmptyFields == [f \in {} |-> <<>>]
Answered == [reference_answer |-> Text("A")]

Titles == {ImitationTitle, PictureTitle, OtherTitle}

\* the fields a question of a group with this title carries besides the common ones
KindFields(title) ==
    IF title = ImitationTitle
    THEN [Imitate_writing |-> [list |-> TRUE, items |-> <<Text("a"), <<>>>>]]
    ELSE IF title = PictureTitle THEN [prompt |-> Text("P")]
    ELSE EmptyFields

\* f and g have disjoint domains
Merge(f, g) == [k \in DOMAIN f \cup DOMAIN g |-> IF k \in DOMAIN f THEN f[k] ELSE g[k]]

\* title and presence of "require": line 79 treats the requirement alike for
\* every title, so both cases are taken for the unrecognized title and one
\* each for the recognized ones
GroupKinds ==
    {k \in [title : Titles, req : BOOLEAN] :
        /\ k.title = ImitationTitle => k.req
        /\ k.title = PictureTitle => ~k.req}

\* groups of n questions numbered 1..n, each with or without a reference answer
OrderGroups(n) ==
    {Group(k.title, k.req,
           [i \in 1..n |-> Question(i, Merge(KindFields(k.title),
                                            IF flags[i] THEN Answered ELSE EmptyFields))]) :
        k \in GroupKinds, flags \in [1..n -> BOOLEAN]}

\* the collections of at most `groups` groups holding at most `questions`
\* questions in all
RECURSIVE CollectionsWithin(_, _)
CollectionsWithin(groups, questions) ==
    IF groups = 0 THEN {<<>>}
    ELSE {<<>>} \cup
         UNION {{<<g>> \o rest : g \in OrderGroups(n),
                                rest \in CollectionsWithin(groups - 1, questions - n)} :
                n \in 0..questions}

OrderCollections == CollectionsWithin(MaxGroups, MaxTotalQuestions)

InitOrder ==
    /\ docContent \in OrderCollections
    /\ blankWidth = BlankWidth
    /\ CompilerStart

SpecOrder == InitOrder /\ [][NextCompiler]_vars

\* picture questions over every state of the two image sources
LocalStates == {"", "missing", "corrupt", "valid"}
RemoteStates == {"unreachable", "corrupt", "valid"}

PictureFields ==
    {Merge(Merge(l, r), a) :
        l \in {EmptyFields} \cup {[local_image_path |-> x] : x \in LocalStates},
        r \in {EmptyFields} \cup {[image_url |-> x] : x \in RemoteStates},
        a \in {EmptyFields, Answered}}

InitPicture ==
    /\ \E fs \in SeqsUpTo(PictureFields, MaxPicQuestions) :
        docContent = <<Group(PictureTitle, TRUE,
                             [i \in 1..Len(fs) |-> Question(i, fs[i])])>>
    /\ blankWidth = BlankWidth
    /\ CompilerStart

SpecPicture == InitPicture /\ [][NextCompiler]_vars

\* sentence-imitation questions over every blank template
Fragments == {<<>>, Text("a"), Text("b")}
Widths == {1, 2, BlankWidth}

BlankFields ==
    {EmptyFields, [Imitate_writing |-> [list |-> FALSE, items |-> <<>>]]}
    \cup {[Imitate_writing |-> [list |-> TRUE, items |-> t]] :
            t \in SeqsUpTo(Fragments, MaxFragments)}

InitBlank ==
    /\ \E fs \in BlankFields :
        docContent = <<Group(ImitationTitle, TRUE, <<Question(1, Merge(fs, Answered))>>)>>
    /\ blankWidth \in Widths
    /\ CompilerStart

SpecBlank == InitBlank /\ [][NextCompiler]_vars

\* questions that may lack a field their renderer reads
Without(question, key) == [f \in DOMAIN question \ {key} |-> question[f]]

FaultyQuestions(title, number) ==
    LET whole == Question(number, Merge(KindFields(title), Answered))
    IN  {whole, Without(whole, "number"), Without(whole, "question")}

\* groups of n questions with a recognized title
FaultyGroups(n) ==
    UNION {{Group(title, TRUE, questions) :
                questions \in {qs \in [1..n -> UNION {FaultyQuestions(title, i) : i \in 1..n}] :
                                \A i \in 1..n : qs[i] \in FaultyQuestions(title, i)}} :
           title \in {ImitationTitle, PictureTitle}}

RECURSIVE FaultyWithin(_, _)
FaultyWithin(groups, questions) ==
    IF groups = 0 THEN {<<>>}
    ELSE {<<>>} \cup
         UNION {{<<g>> \o rest : g \in FaultyGroups(n),
                                rest \in FaultyWithin(groups - 1, questions - n)} :
                n \in 0..questions}

InitFaulty ==
    /\ docContent \in FaultyWithin(MaxGroups, MaxTotalQuestions)
    /\ blankWidth = BlankWidth
    /\ CompilerStart

SpecFaulty == InitFaulty /\ [][NextCompiler]_vars

\* questions of either recognized kind over the image prompt: absent,
\* empty, or a text
PromptFields ==
    {Merge(pr, a) :
        pr \in {EmptyFields, [prompt |-> <<>>], [prompt |-> Text("P")]},
        a \in {EmptyFields, Answered}}

InitPrompt ==
    /\ \E title \in {ImitationTitle, PictureTitle} :
       \E fs \in SeqsUpTo(PromptFields, MaxPicQuestions) :
        docContent = <<Group(title, TRUE, [i \in 1..Len(fs) |-> Question(i, fs[i])])>>
    /\ blankWidth = BlankWidth
    /\ CompilerStart

SpecPrompt == InitPrompt /\ [][NextCompiler]_vars

(***************************************************************************)
(* process_exercises_with_images                                           *)
(***************************************************************************)
InitPipeline ==
    /\ modelOk \in BOOLEAN
    /\ content \in (IF modelOk THEN Texts ELSE {<<>>})
    /\ pc = "start"
    /\ exercises_data = None
    /\ fencedTried = <<>>
    /\ arrayTried = <<>>
    /\ log = <<>>
    /\ result = NoResult
    /\ CompilerIdle

\* call_model returned content None
ModelCallFailed ==
    /\ pc = "start"
    /\ ~modelOk
    /\ result' = Failure
    /\ pc' = "returned"
    /\ UNCHANGED <<content, modelOk, exercises_data, fencedTried, arrayTried, log>>
    /\ UNCHANGED compilerVars

\* the recovery of exercises_data and the return on failure
RecoverJson ==
    /\ pc = "start"
    /\ modelOk
    /\ LET r == ExtractJson(content)
       IN  /\ exercises_data' = r.data
           /\ fencedTried' = r.fenced
           /\ arrayTried' = r.array
           /\ IF ExtractionFailed(r.data)
              THEN pc' = "returned" /\ result' = Failure
              ELSE pc' = "recovered" /\ result' = result
    /\ UNCHANGED <<content, modelOk, log>>
    /\ UNCHANGED compilerVars

\* makedirs(output_dir); json.dump(exercises_data) to exercises.json
SaveOriginal ==
    /\ pc = "recovered"
    /\ log' = log \o <<Event("makedirs", <<>>), Event("exercises.json", exercises_data)>>
    /\ pc' = "saved"
    /\ UNCHANGED <<content, modelOk, exercises_data, fencedTried, arrayTried, result>>
    /\ UNCHANGED compilerVars

\* the loop that calls generate_image for the questions with a prompt
AnnotateImages ==
    /\ pc = "saved"
    /\ \E o \in ImageOutcomes :
        /\ exercises_data' = Annotate(exercises_data, o)
        /\ log' = log \o [i \in 1..Len(PromptQuestions(exercises_data)) |->
                            Event("generate_image", PromptQuestions(exercises_data)[i])]
    /\ pc' = "annotated"
    /\ UNCHANGED <<content, modelOk, fencedTried, arrayTried, result>>
    /\ UNCHANGED compilerVars

\* json.dump(exercises_data) to exercises_with_images.json
SaveAnnotated ==
    /\ pc = "annotated"
    /\ log' = Append(log, Event("exercises_with_images.json", exercises_data))
    /\ pc' = "persisted"
    /\ UNCHANGED <<content, modelOk, exercises_data, fencedTried, arrayTried, result>>
    /\ UNCHANGED compilerVars

\* try: WordGenerator().create_document(...) except Exception: log it
CreateWord ==
    /\ pc = "persisted"
    /\ \E raised \in BOOLEAN :
        log' = log \o <<Event("create_document", exercises_data)>>
                   \o (IF raised THEN <<>> ELSE <<Event("exercises.docx", <<>>)>>)
    /\ pc' = "compiled"
    /\ UNCHANGED <<content, modelOk, exercises_data, fencedTried, arrayTried, result>>
    /\ UNCHANGED compilerVars

\* the failure result returned when create_document raised
ReturnDataFailureOnRaise ==
    /\ pc = "compiled"
    /\ result' = IF \E k \in 1..Len(log) : log[k].ev = "exercises.docx"
                 THEN [output_dir |-> <<"data/timestamp">>, data |-> exercises_data]
                 ELSE Failure
    /\ pc' = "returned"
    /\ UNCHANGED <<content, modelOk, exercises_data, fencedTried, arrayTried, log>>
    /\ UNCHANGED compilerVars

\* return output_dir, exercises_data
ReturnData ==
    /\ pc = "compiled"
    /\ result' = [output_dir |-> <<"data/timestamp">>, data |-> exercises_data]
    /\ pc' = "returned"
    /\ UNCHANGED <<content, modelOk, exercises_data, fencedTried, arrayTried, log>>
    /\ UNCHANGED compilerVars

NextPipeline ==
    \/ ModelCallFailed
    \/ RecoverJson
    \/ SaveOriginal
    \/ AnnotateImages
    \/ SaveAnnotated
    \/ CreateWord
    \/ ReturnData

SpecPipeline == InitPipeline /\ [][NextPipeline]_vars

(***************************************************************************)
(* The image loop over a decoded collection                                *)
(*                                                                         *)
(* Here exercises_data is the collection as Python holds it after          *)
(* json.loads: a list of dicts, as in the document part.                   *)
(***************************************************************************)
\* "prompt" in question, whatever the title of the group
NeedsImageAnyTitle(item, question) == "prompt" \in DOMAIN question

\* item.get("maxTitle") == "看图写话练习题" and "prompt" in question
NeedsImage(item, question) ==
    /\ "maxTitle" \in DOMAIN item
    /\ item.maxTitle = PictureTitle
    /\ "prompt" \in DOMAIN question

\* the questions generate_image is called for, in the order of the loops
RECURSIVE RequestsFrom(_, _, _)
RequestsFrom(data, g, q) ==
    IF g > Len(data) THEN <<>>
    ELSE IF q > Len(data[g].questions) THEN RequestsFrom(data, g + 1, 1)
    ELSE (IF NeedsImage(data[g], data[g].questions[q])
          THEN <<[g |-> g, q |-> q]>> ELSE <<>>)
         \o RequestsFrom(data, g, q + 1)

Requests(data) == RequestsFrom(data, 1, 1)

\* question["image_url"] = image_url, and question["local_image_path"] =
\* local_image_path if there is one; nothing on a failed request
AnnotateRecord(question, o) ==
    IF o.url
    THEN [k \in DOMAIN question \cup {"image_url"}
                \cup (IF o.local THEN {"local_image_path"} ELSE {}) |->
            IF k = "image_url" THEN "valid"
            ELSE IF k = "local_image_path" /\ o.local THEN "valid"
            ELSE question[k]]
    ELSE question

\* exercises_data after the loops, the k-th request ending as os[k]
AnnotateAll(data, os) ==
    [g \in 1..Len(data) |->
        [f \in DOMAIN data[g] |->
            IF f = "questions"
            THEN [q \in 1..Len(data[g].questions) |->
                    IF NeedsImage(data[g], data[g].questions[q])
                    THEN AnnotateRecord(data[g].questions[q],
                            os[CHOOSE k \in 1..Len(Requests(data)) :
                                    Requests(data)[k] = [g |-> g, q |-> q]])
                    ELSE data[g].questions[q]]
            ELSE data[g][f]]]

\* the image loop of process_exercises_with_images on a decoded collection
AnnotateQuestions ==
    /\ pc = "saved"
    /\ \E os \in [1..Len(Requests(exercises_data)) -> ImageOutcomes] :
        /\ exercises_data' = AnnotateAll(exercises_data, os)
        /\ log' = log \o [k \in 1..Len(os) |->
                            [ev |-> "generate_image",
                             data |-> exercises_data[Requests(exercises_data)[k].g]
                                        .questions[Requests(exercises_data)[k].q],
                             g |-> Requests(exercises_data)[k].g,
                             q |-> Requests(exercises_data)[k].q,
                             outcome |-> os[k]]]
    /\ pc' = "annotated"
    /\ UNCHANGED <<content, modelOk, fencedTried, arrayTried, result>>
    /\ UNCHANGED compilerVars

\* questions with or without a prompt, with or without an image_url kept
\* from before
MaxImageQuestions == 2

ImageFields ==
    {Merge(pr, u) :
        pr \in {EmptyFields, [prompt |-> Text("P")]},
        u \in {EmptyFields, [image_url |-> "unreachable"]}}

ImageQuestionLists(n) ==
    {[i \in 1..n |-> Question(i, fs[i])] : fs \in [1..n -> ImageFields]}

\* a first group of either recognized title and a picture-narrative group,
\* with at most MaxImageQuestions questions between them
ImageCollections ==
    UNION {UNION {{<<Group(title, TRUE, first), Group(PictureTitle, TRUE, second)>> :
                        title \in {ImitationTitle, PictureTitle},
                        first \in ImageQuestionLists(n),
                        second \in ImageQuestionLists(m)} :
                  m \in 0..(MaxImageQuestions - n)} :
           n \in 0..MaxImageQuestions}

InitImages ==
    /\ content = <<>>
    /\ modelOk = TRUE
    /\ pc = "recovered"
    /\ exercises_data \in ImageCollections
    /\ fencedTried = <<>>
    /\ arrayTried = <<>>
    /\ log = <<>>
    /\ result = NoResult
    /\ CompilerIdle

NextImages ==
    \/ SaveOriginal
    \/ AnnotateQuestions
    \/ SaveAnnotated
    \/ CreateWord
    \/ ReturnData

SpecImages == InitImages /\ [][NextImages]_vars

(***************************************************************************)
(* Claims about the recovery                                               *)
(***************************************************************************)
\* the state right after the recovery, before anything else has run
JustRecovered == modelOk /\ pc \in {"recovered", "returned"} /\ log = <<>>

Blocks == re_findall_fenced(content)
DecodableBlocks ==
    LET blocks == Blocks
    IN  {i \in 1..Len(blocks) : json_loads(strip(blocks[i])).ok}

\* direct decode, every fenced block and the array span all fail
AllStrategiesFail ==
    /\ ~json_loads(content).ok
    /\ DecodableBlocks = {}
    /\ LET am == re_search_array(content)
       IN  am.found => ~json_loads(am.span).ok

\* C1: when the whole raw text decodes, the recovered value is that decoded
\* value and neither the fenced blocks nor the array span were tried.
C1_DirectDecodeWins ==
    (modelOk /\ pc # "start" /\ json_loads(content).ok) =>
        /\ fencedTried = <<>>
        /\ arrayTried = <<>>
        /\ JustRecovered => exercises_data = json_loads(content).val
        /\ log # <<>> => log[2] = Event("exercises.json", json_loads(content).val)

\* C1 witness: a text that decodes directly and also holds a fenced block
C1_Witness ==
    /\ pc = "recovered"
    /\ json_loads(content).ok
    /\ Blocks # <<>>
    /\ exercises_data = json_loads(content).val

\* C2: when direct decode fails and some fenced block decodes, the recovered
\* value is the decoded value of the first such block, whatever it decodes to.
C2_FirstDecodableBlockReturned ==
    (JustRecovered /\ ~json_loads(content).ok /\ DecodableBlocks # {}) =>
        exercises_data = json_loads(strip(Blocks[Min(DecodableBlocks)])).val

\* C3: the array span is tried only when direct decode failed and no fenced
\* block decoded; it is the one span from the first "[" opening an object to
\* the last "}" followed by "]", and nothing is tried after it.
C3_ArrayScanOnlyAfterFencedFailed ==
    (JustRecovered /\ arrayTried # <<>>) =>
        /\ ~json_loads(content).ok
        /\ DecodableBlocks = {}
        /\ arrayTried = <<re_search_array(content).span>>

\* C4: when every strategy fails the pipeline returns the failure result
\* and has made no directory, written no file, requested no image and
\* never called create_document.
C4_UnparseableIsTerminal ==
    (modelOk /\ AllStrategiesFail) =>
        /\ log = <<>>
        /\ pc \in {"start", "returned"}
        /\ pc = "returned" => result = Failure

\* C4 witness: a fenced block and an array span were tried and all failed
C4_Witness ==
    /\ pc = "returned"
    /\ modelOk
    /\ AllStrategiesFail
    /\ fencedTried # <<>>
    /\ arrayTried # <<>>
    /\ result = Failure

\* C5: the failure returned when every strategy fails carries the raw text.
C5_FailureCarriesRawText ==
    (pc = "returned" /\ modelOk /\ AllStrategiesFail) =>
        \E f \in DOMAIN result : result[f] = content

(***************************************************************************)
(* Claims about the document                                               *)
(***************************************************************************)
\* the question a qlog entry is about, and the paragraphs it rendered
LoggedQuestion(e) == docContent[e.g].questions[e.q]
LoggedPars(e) == SubSeq(doc, e.from + 1, e.to)

\* the fill-in lines among some paragraphs
FillLines(pars) == SelectSeq(pars, LAMBDA p : p.kind = "fill")

HasTemplate(question) ==
    "Imitate_writing" \in DOMAIN question /\ question.Imitate_writing.list

\* number of blank markers of a line: its underscores, blankWidth to a marker
BlankMarkers(line) == Cardinality({i \in DOMAIN line : line[i] = "_"}) \div blankWidth

\* the line with its blank markers removed
WithoutBlanks(line) == SelectSeq(line, LAMBDA c : c # "_")

\* C6 as stated: a template of n fragments renders as n + 1 blank markers,
\* one of them before the first fragment.
C6_LeadingAndTrailingBlank ==
    \A k \in 1..Len(qlog) :
        HasTemplate(LoggedQuestion(qlog[k])) =>
            LET words == LoggedQuestion(qlog[k]).Imitate_writing.items
                lines == FillLines(LoggedPars(qlog[k]))
            IN  /\ Len(lines) = 1
                /\ BlankMarkers(lines[1].txt) = Len(words) + 1
                /\ SubSeq(lines[1].txt, 1, blankWidth) = Underscores(blankWidth)

\* C6 amended: a template of n >= 1 fragments renders as n blank markers, one
\* after each fragment and none before the first; an empty template renders
\* as a single blank marker.
C6_BlankAfterEachFragment ==
    \A k \in 1..Len(qlog) :
        HasTemplate(LoggedQuestion(qlog[k])) =>
            LET words == LoggedQuestion(qlog[k]).Imitate_writing.items
                lines == FillLines(LoggedPars(qlog[k]))
            IN  /\ Len(lines) = 1
                /\ BlankMarkers(lines[1].txt) = (IF words = <<>> THEN 1 ELSE Len(words))
                /\ lines[1].txt =
                    IF words = <<>> THEN Underscores(blankWidth)
                    ELSE Flatten([i \in 1..Len(words) |->
                                    words[i] \o Underscores(blankWidth)])

\* C6 witness: a four-fragment template has been rendered
C6_Witness ==
    /\ cpc = "saved"
    /\ qlog # <<>>
    /\ HasTemplate(LoggedQuestion(qlog[1]))
    /\ LoggedQuestion(qlog[1]).Imitate_writing.items = <<Text("a"), Text("b"), <<>>, Text("a")>>
    /\ Len(FillLines(LoggedPars(qlog[1]))) = 1

\* C7: a four-fragment template renders as exactly four blank markers, and
\* the line without its markers is the fragments concatenated in order, for
\* every marker width.
C7_FourFragmentRoundTrip ==
    \A k \in 1..Len(qlog) :
        (HasTemplate(LoggedQuestion(qlog[k]))
            /\ Len(LoggedQuestion(qlog[k]).Imitate_writing.items) = 4) =>
            LET words == LoggedQuestion(qlog[k]).Imitate_writing.items
                lines == FillLines(LoggedPars(qlog[k]))
            IN  /\ Len(lines) = 1
                /\ BlankMarkers(lines[1].txt) = 4
                /\ WithoutBlanks(lines[1].txt) = Flatten(words)

\* C7 witness: the template ["a", "", "b", ""] rendered with a marker width
\* other than the program's
C7_Witness ==
    /\ cpc = "saved"
    /\ blankWidth = 2
    /\ qlog # <<>>
    /\ HasTemplate(LoggedQuestion(qlog[1]))
    /\ LoggedQuestion(qlog[1]).Imitate_writing.items = <<Text("a"), <<>>, Text("b"), <<>>>>
    /\ FillLines(LoggedPars(qlog[1])) # <<>>

\* the paragraphs after the page break
RECURSIVE AfterPageBreak(_)
AfterPageBreak(pars) ==
    IF pars = <<>> THEN <<>>
    ELSE IF Head(pars) = PageBreak THEN Tail(pars)
    ELSE AfterPageBreak(Tail(pars))

\* the group headings and question restatements among some paragraphs
Outline(pars) == SelectSeq(pars, LAMBDA p : p.kind \in {"Section", "Question"})

HasAnswer(question) == "reference_answer" \in DOMAIN question
Recognized(item) == item.maxTitle \in {ImitationTitle, PictureTitle}

\* what the appendix is to list for one input group
ExpectedGroupOutline(item) ==
    IF Recognized(item) /\ SelectSeq(item.questions, HasAnswer) # <<>>
    THEN <<Par("Section", 0, item.maxTitle \o <<"CanKaoDaAn">>)>>
         \o [i \in 1..Len(SelectSeq(item.questions, HasAnswer)) |->
                Par("Question", SelectSeq(item.questions, HasAnswer)[i].number,
                    SelectSeq(item.questions, HasAnswer)[i].question)]
    ELSE <<>>

\* C8: the appendix lists the groups in input order and, under each, exactly
\* the questions that carried a reference answer, once each, in the order
\* they were rendered.
C8_AnswerOrder ==
    cpc = "saved" =>
        /\ Outline(AfterPageBreak(doc)) =
            Flatten([g \in 1..Len(docContent) |-> ExpectedGroupOutline(docContent[g])])
        /\ Len(SelectSeq(AfterPageBreak(doc), LAMBDA p : p.kind = "Answer"
                                                /\ p.txt[1] = "CanKaoDaAn"))
            = Len(SelectSeq(Outline(AfterPageBreak(doc)), LAMBDA p : p.kind = "Question"))

\* C8 witness: two groups in the appendix, the first with two answers
C8_Witness ==
    /\ cpc = "saved"
    /\ Len(answers) = 2
    /\ Len(answers[1].answers) = 2
    /\ answers[1].title # answers[2].title
    /\ Len(docContent[1].questions) = 2

\* C9: a group whose title is neither recognized title gets its heading and
\* its requirement if it has one, no question body and no answer entry, is
\* not in the appendix, and the groups after it are still rendered.
C9_SilentSkip ==
    /\ cpc # "raised"
    /\ cpc = "saved" => Len(glog) = Len(docContent)
    /\ \A k \in 1..Len(glog) :
        LET item == docContent[glog[k].g]
        IN  /\ doc[glog[k].from + 1] = Par("Section", 0, item.maxTitle)
            /\ ~Recognized(item) =>
                /\ SubSeq(doc, glog[k].from + 1, glog[k].to) =
                    <<Par("Section", 0, item.maxTitle)>>
                    \o (IF "require" \in DOMAIN item
                        THEN <<Par("Requirement", 0, item.require)>> ELSE <<>>)
                /\ glog[k].collected = <<>>
                /\ \A j \in 1..Len(qlog) : qlog[j].g # glog[k].g
                /\ \A j \in 1..Len(answers) : answers[j].title # item.maxTitle
                /\ \A j \in 1..Len(doc) :
                    doc[j] # Par("Section", 0, item.maxTitle \o <<"CanKaoDaAn">>)

\* C9 witness: an unrecognized group with a requirement and an answered
\* question, followed by a recognized group that reached the appendix
C9_Witness ==
    /\ cpc = "saved"
    /\ Len(docContent) = 2
    /\ docContent[1].maxTitle = OtherTitle
    /\ "require" \in DOMAIN docContent[1]
    /\ docContent[1].questions # <<>>
    /\ HasAnswer(docContent[1].questions[1])
    /\ Recognized(docContent[2])
    /\ Len(answers) = 1

Usable(question, key) == key \in DOMAIN question /\ question[key] # ""
Valid(question, key) == Usable(question, key) /\ question[key] = "valid"

\* C10: the local image is tried first and the remote one only if no local
\* image was embedded; an invalid local with a valid remote embeds the
\* remote image; at most one image is embedded; and in every case the
\* question text, the writing area and the answer entry are emitted and the
\* build goes on to the end.
C10_ImageDegradation ==
    /\ cpc # "raised"
    /\ cpc = "saved" => Len(qlog) = Len(docContent[1].questions)
    /\ \A k \in 1..Len(qlog) :
        LET question == LoggedQuestion(qlog[k])
            pars == LoggedPars(qlog[k])
            pictures == SelectSeq(pars, LAMBDA p : p.kind = "picture")
            sources == [i \in 1..Len(qlog[k].attempts) |-> qlog[k].attempts[i].src]
        IN  /\ sources =
                (IF Usable(question, "local_image_path") THEN <<"local">> ELSE <<>>)
                \o (IF Usable(question, "image_url") /\ ~Valid(question, "local_image_path")
                    THEN <<"remote">> ELSE <<>>)
            /\ Valid(question, "local_image_path") =>
                    pictures = <<Par("picture", 0, <<"local">>)>>
            /\ (~Valid(question, "local_image_path") /\ Valid(question, "image_url")) =>
                    pictures = <<Par("picture", 0, <<"remote">>)>>
            /\ Len(pictures) <= 1
            /\ (~Valid(question, "local_image_path") /\ ~Valid(question, "image_url")) =>
                    pictures = <<>>
            /\ pars[1] = Par("Question", question.number, question.question)
            /\ Len(pars) > Len(WritingArea)
            /\ SubSeq(pars, Len(pars) - Len(WritingArea), Len(pars) - 1) = WritingArea
            /\ HasAnswer(question) =>
                /\ Len(qlog[k].collected) = 1
                /\ qlog[k].collected[1].number = question.number
                /\ qlog[k].collected[1].answer = question.reference_answer
                /\ cpc = "saved" =>
                    \E j \in 1..Len(answers[1].answers) :
                        answers[1].answers[j] = qlog[k].collected[1]

\* C10 witness: one question with a missing local file and a valid remote
\* image, one with both sources failing while embedding, both answered
C10_Witness ==
    /\ cpc = "saved"
    /\ Len(qlog) = 2
    /\ \A k \in 1..2 : {"local_image_path", "image_url"} \subseteq DOMAIN LoggedQuestion(qlog[k])
    /\ LoggedQuestion(qlog[1]).local_image_path = "missing"
    /\ LoggedQuestion(qlog[1]).image_url = "valid"
    /\ LoggedQuestion(qlog[2]).local_image_path = "corrupt"
    /\ LoggedQuestion(qlog[2]).image_url = "corrupt"
    /\ HasAnswer(LoggedQuestion(qlog[2]))
    /\ Len(answers) = 1
    /\ Len(qlog[2].attempts) = 2

(***************************************************************************)
(* Claims about failures inside the compiler                               *)
(***************************************************************************)
Complete(question) == {"number", "question"} \subseteq DOMAIN question

\* C11: a question that lacks its number or its text affects only itself:
\* the build does not stop, every complete question of every group is still
\* rendered, and the page break and the appendix are emitted.
C11_FailuresLocalized ==
    /\ cpc # "raised"
    /\ cpc = "saved" =>
        /\ \A g \in 1..Len(docContent) : \A q \in 1..Len(docContent[g].questions) :
                Complete(docContent[g].questions[q]) =>
                    \E k \in 1..Len(qlog) : qlog[k].g = g /\ qlog[k].q = q
        /\ \E j \in 1..Len(doc) : doc[j] = PageBreak

(***************************************************************************)
(* Claims about the structure of the document                              *)
(***************************************************************************)
\* the positions of the page breaks
PageBreaks == {j \in 1..Len(doc) : doc[j].kind = "page_break"}

\* paragraph kinds of the exercise part and of the appendix
ExerciseKinds ==
    {"Section", "Requirement", "Question", "fill", "blank", "label", "ruled",
     "period", "picture", "centered"}
AppendixKinds == {"Title", "blank", "Section", "Question", "Answer"}

IsAnswerHeading(p) ==
    p.kind = "Section" /\ p.txt # <<>> /\ p.txt[Len(p.txt)] = "CanKaoDaAn"

\* the heading and the requirement of a group
GroupHeading(item) ==
    <<Par("Section", 0, item.maxTitle)>>
    \o (IF "require" \in DOMAIN item THEN <<Par("Requirement", 0, item.require)>> ELSE <<>>)

\* C12: a compiled document is the title block, one section per group in the
\* order of the collection (heading, requirement if any, questions), exactly
\* one page break, then the appendix; nothing of the exercises follows the
\* page break and nothing of the answers precedes it.
C12_DocumentStructure ==
    cpc = "saved" =>
        /\ Cardinality(PageBreaks) = 1
        /\ LET break == CHOOSE j \in PageBreaks : TRUE
               n == Len(docContent)
           IN  /\ SubSeq(doc, 1, 2) = add_title(DocumentTitle)
               /\ Len(glog) = n
               /\ \A g \in 1..n :
                    /\ glog[g].g = g
                    /\ glog[g].from = (IF g = 1 THEN 2 ELSE glog[g - 1].to)
                    /\ glog[g].to - glog[g].from >= Len(GroupHeading(docContent[g]))
                    /\ SubSeq(doc, glog[g].from + 1,
                              glog[g].from + Len(GroupHeading(docContent[g])))
                        = GroupHeading(docContent[g])
                    /\ \A j \in (glog[g].from + Len(GroupHeading(docContent[g])) + 1)..glog[g].to :
                        doc[j].kind \in ExerciseKinds \ {"Section", "Requirement"}
               /\ break = (IF n = 0 THEN 2 ELSE glog[n].to) + 1
               /\ \A j \in 1..(break - 1) :
                    doc[j].kind # "Answer" /\ ~IsAnswerHeading(doc[j])
               /\ SubSeq(doc, break + 1, break + 2) = add_title(AnswersTitle)
               /\ \A j \in (break + 3)..Len(doc) :
                    /\ doc[j].kind \in AppendixKinds \ {"Title"}
                    /\ doc[j].kind = "Section" => IsAnswerHeading(doc[j])

\* C12 witness: a document of two groups with questions and with answers
C12_Witness ==
    /\ cpc = "saved"
    /\ Len(docContent) = 2
    /\ docContent[1].questions # <<>>
    /\ docContent[2].questions # <<>>
    /\ Recognized(docContent[1])
    /\ Recognized(docContent[2])
    /\ answers # <<>>
    /\ Cardinality(PageBreaks) = 1

\* the groups that produced an answer entry, and the appendix headings
Producing == SelectSeq(glog, LAMBDA e : e.collected # <<>>)
AppendixHeadings == SelectSeq(AfterPageBreak(doc), IsAnswerHeading)

\* C13: the appendix has a heading, with its entries, for exactly the groups
\* that produced at least one answer entry; a group without questions, or
\* whose questions all lack a reference answer, has neither.
C13_AppendixIffAnswers ==
    cpc = "saved" =>
        /\ \A g \in 1..Len(glog) :
            (glog[g].collected # <<>>) <=>
                /\ Recognized(docContent[g])
                /\ \E q \in 1..Len(docContent[g].questions) :
                        HasAnswer(docContent[g].questions[q])
        /\ Len(AppendixHeadings) = Len(Producing)
        /\ Len(answers) = Len(Producing)
        /\ \A k \in 1..Len(Producing) :
            /\ AppendixHeadings[k] =
                Par("Section", 0, docContent[Producing[k].g].maxTitle \o <<"CanKaoDaAn">>)
            /\ answers[k].answers = Producing[k].collected
        /\ Len(SelectSeq(AfterPageBreak(doc), LAMBDA p : p.kind = "Question"))
            = Len(Flatten([k \in 1..Len(Producing) |-> Producing[k].collected]))

\* C13 witness: a recognized group whose two questions lack an answer, then
\* a group with an answered question, which alone is in the appendix
C13_Witness ==
    /\ cpc = "saved"
    /\ Len(docContent) = 2
    /\ Recognized(docContent[1])
    /\ Len(docContent[1].questions) = 2
    /\ ~HasAnswer(docContent[1].questions[1])
    /\ ~HasAnswer(docContent[1].questions[2])
    /\ Len(answers) = 1
    /\ answers[1].title = docContent[2].maxTitle
    /\ Len(AppendixHeadings) = 1

(***************************************************************************)
(* Claims about the entries of the appendix                                *)
(***************************************************************************)
\* the appendix entry of an answered question, the image-prompt line only
\* for a picture-narrative question with a non-empty prompt
ExpectedEntry(title, question) ==
    <<Par("Question", question.number, question.question)>>
    \o (IF title = PictureTitle /\ "prompt" \in DOMAIN question /\ question.prompt # <<>>
        THEN <<Par("Answer", 0, <<"TuPianMiaoShu">> \o question.prompt)>>
        ELSE <<>>)
    \o <<Par("Answer", 0, <<"CanKaoDaAn">> \o question.reference_answer)>>

ExpectedGroupEntries(item) ==
    LET answered == SelectSeq(item.questions, HasAnswer)
    IN  IF Recognized(item) /\ answered # <<>>
        THEN <<Par("Section", 0, item.maxTitle \o <<"CanKaoDaAn">>)>>
             \o Flatten([i \in 1..Len(answered) |-> ExpectedEntry(item.maxTitle, answered[i])])
             \o <<BlankPar>>
        ELSE <<>>

\* C14: each appendix entry is the question restatement then the answer
\* line, with an image-prompt line between them only for a picture-narrative
\* entry whose prompt is non-empty.
C14_PromptLineOnlyIfNonEmpty ==
    cpc = "saved" =>
        AfterPageBreak(doc) =
            add_title(AnswersTitle)
            \o Flatten([g \in 1..Len(docContent) |-> ExpectedGroupEntries(docContent[g])])

(***************************************************************************)
(* Claims about single questions                                           *)
(***************************************************************************)
\* C15: a sentence-imitation question gets a fill-in line only when its
\* blank template is present and non-empty.
C15_FillLineOnlyIfNonEmpty ==
    \A k \in 1..Len(qlog) :
        FillLines(LoggedPars(qlog[k])) # <<>> =>
            /\ HasTemplate(LoggedQuestion(qlog[k]))
            /\ LoggedQuestion(qlog[k]).Imitate_writing.items # <<>>

\* a paragraph that holds a rule, and one that holds the closing mark
HoldsRule(p) == p.num = RuledWidth /\ \E i \in DOMAIN p.txt : p.txt[i] = "_"
HoldsMark(p) == \E i \in DOMAIN p.txt : p.txt[i] = "JuHao"

\* C16 as stated: the writing area is 8 ruled lines, the closing mark on the
\* 8th of them, once per question.
C16_MarkOnEighthLine ==
    \A k \in 1..Len(qlog) :
        LET pars == LoggedPars(qlog[k])
            ruled == SelectSeq(pars, HoldsRule)
        IN  /\ Len(ruled) = 8
            /\ HoldsMark(ruled[8])
            /\ Len(SelectSeq(pars, HoldsMark)) = 1

\* C16 amended: whether or not an image was embedded, the question ends with
\* the label, exactly 8 ruled lines, and the closing mark in a paragraph of
\* its own right after the 8th ruled line, once per question.
C16_MarkAfterEighthLine ==
    \A k \in 1..Len(qlog) :
        LET pars == LoggedPars(qlog[k])
            n == Len(pars)
        IN  /\ n >= 12
            /\ pars[n] = BlankPar
            /\ pars[n - 1] = Par("period", 0, <<"JuHao">>)
            /\ ~HoldsRule(pars[n - 1])
            /\ \A j \in (n - 9)..(n - 2) :
                    pars[j] = Par("ruled", 60, <<"_">>) /\ ~HoldsMark(pars[j])
            /\ pars[n - 10] = Par("label", 0, <<"XieHua">>)
            /\ Len(SelectSeq(pars, HoldsRule)) = 8
            /\ Len(SelectSeq(pars, HoldsMark)) = 1
            /\ Len(SelectSeq(pars, LAMBDA p : p.kind = "label")) = 1

\* C16 witness: a question with an embedded image and one without, both rendered
C16_Witness ==
    /\ cpc = "saved"
    /\ Len(qlog) = 2
    /\ \E j \in 1..Len(LoggedPars(qlog[1])) : LoggedPars(qlog[1])[j].kind = "picture"
    /\ \A j \in 1..Len(LoggedPars(qlog[2])) : LoggedPars(qlog[2])[j].kind # "picture"
    /\ Len(SelectSeq(LoggedPars(qlog[2]), HoldsRule)) = 8

(***************************************************************************)
(* Claims about the pipeline after the recovery                            *)
(***************************************************************************)
\* the collection as saved to exercises.json, before the image loop
BeforeImages == log[2].data
ImageRequests == SelectSeq(log, LAMBDA e : e.ev = "generate_image")
AfterImageLoop == pc \in {"annotated", "persisted", "compiled", "returned"}

LocalOnlyWithUrl(data) ==
    \A g \in 1..Len(data) : \A q \in 1..Len(data[g].questions) :
        "local_image_path" \in DOMAIN data[g].questions[q]
            => "image_url" \in DOMAIN data[g].questions[q]

\* C17: after the image loop a question has a local image path only if it
\* has an image URL; only the questions with a prompt in a picture-narrative
\* group are requested and changed; a failed request leaves its question as
\* it was; and every such question is requested, whatever became of the
\* requests before it.
C17_ImageAnnotation ==
    AfterImageLoop =>
        /\ LocalOnlyWithUrl(BeforeImages) => LocalOnlyWithUrl(exercises_data)
        /\ Len(exercises_data) = Len(BeforeImages)
        /\ \A g \in 1..Len(BeforeImages) :
            /\ Len(exercises_data[g].questions) = Len(BeforeImages[g].questions)
            /\ exercises_data[g].maxTitle = BeforeImages[g].maxTitle
            /\ \A q \in 1..Len(BeforeImages[g].questions) :
                LET old == BeforeImages[g].questions[q]
                    new == exercises_data[g].questions[q]
                    asked == {k \in 1..Len(ImageRequests) :
                                ImageRequests[k].g = g /\ ImageRequests[k].q = q}
                IN  /\ Cardinality(asked) =
                        (IF BeforeImages[g].maxTitle = PictureTitle /\ "prompt" \in DOMAIN old
                         THEN 1 ELSE 0)
                    /\ asked = {} => new = old
                    /\ \A k \in asked :
                        /\ ImageRequests[k].data = old
                        /\ ~ImageRequests[k].outcome.url => new = old
                        /\ ImageRequests[k].outcome.url =>
                            /\ "image_url" \in DOMAIN new
                            /\ ("local_image_path" \in DOMAIN new) = ImageRequests[k].outcome.local
                            /\ \A f \in DOMAIN old \ {"image_url"} : new[f] = old[f]
        /\ \A k \in 1..(Len(ImageRequests) - 1) :
            \/ ImageRequests[k].g < ImageRequests[k + 1].g
            \/ /\ ImageRequests[k].g = ImageRequests[k + 1].g
               /\ ImageRequests[k].q < ImageRequests[k + 1].q

\* C17 witness: the first request failed and the one after it was still
\* made and annotated its question with a URL and a local path
C17_Witness ==
    /\ pc = "annotated"
    /\ Len(ImageRequests) = 2
    /\ ~ImageRequests[1].outcome.url
    /\ ImageRequests[2].outcome.url
    /\ ImageRequests[2].outcome.local
    /\ "local_image_path" \in
            DOMAIN exercises_data[ImageRequests[2].g].questions[ImageRequests[2].q]
    /\ exercises_data[ImageRequests[1].g].questions[ImageRequests[1].q]
            = ImageRequests[1].data

\* the positions in log of the events of one name
Events(name) == {k \in 1..Len(log) : log[k].ev = name}

\* C18: the recovered collection is saved before any image request, the
\* annotated collection after the last image request and before the
\* compiler is called, and once the compiler has been called the pipeline
\* returns the output directory and the annotated collection whether or not
\* it raised; the failure result comes only from a failed model call or a
\* failed recovery.
C18_PipelineOrder ==
    /\ Cardinality(Events("exercises.json")) <= 1
    /\ Cardinality(Events("exercises_with_images.json")) <= 1
    /\ Cardinality(Events("create_document")) <= 1
    /\ \A k \in Events("generate_image") : \E j \in Events("exercises.json") : j < k
    /\ \A k \in Events("exercises_with_images.json") :
        /\ \E j \in Events("exercises.json") : j < k
        /\ \A j \in Events("generate_image") : j < k
    /\ \A k \in Events("create_document") :
        /\ \E j \in Events("exercises_with_images.json") :
                j < k /\ log[j].data = log[k].data
        /\ \A j \in Events("generate_image") : j < k
    /\ \A k \in Events("exercises.docx") : \E j \in Events("create_document") : j < k
    /\ pc = "returned" =>
        /\ result = Failure <=> Events("create_document") = {}
        /\ result = Failure => (~modelOk \/ exercises_data = None) /\ log = <<>>
        /\ result # Failure =>
            /\ result.output_dir # None
            /\ result.data = exercises_data
            /\ \A j \in Events("exercises_with_images.json") : result.data = log[j].data

\* C18 witness: an image was requested, the compiler raised (no document
\* was written) and the pipeline returned the annotated collection
C18_Witness ==
    /\ pc = "returned"
    /\ Events("generate_image") # {}
    /\ Events("create_document") # {}
    /\ Events("exercises.docx") = {}
    /\ result # Failure
    /\ result.data = exercises_data
    /\ exercises_data # None

====
